---- MODULE Spec2Model ----
(***************************************************************************)
(* Model of src/app.cpp: a 6502 CPU skeleton (CPU6502), a flat 64KB        *)
(* memory (Memory), and the host program (NesticleClone, main).            *)
(*                                                                         *)
(* Spec    : the whole program, from main's entry to its return.           *)
(* BusSpec : Memory::read / Memory::write called directly, in any order.   *)
(***************************************************************************)
EXTENDS Integers, Sequences, FiniteSets, TLC

VARIABLES
    cpu,        \* NesticleClone::cpu : [A, X, Y, SP, PC, status]
    memory,     \* NesticleClone::memory.ram, kept sparse (absent address = 0)
    running,    \* NesticleClone::running
    window,     \* NesticleClone::window   (FALSE = nullptr)
    renderer,   \* NesticleClone::renderer (FALSE = nullptr)
    pc,         \* position of the thread of main
    exitCode,   \* value returned by main (-1 while it has not returned)
    argc,       \* main's argc
    romFile,    \* the file named by argv[1], as the file system holds it
    opcode,     \* emulate_cycle's local `opcode` (last one fetched)
    busAccess,  \* indices of ram read by the last emulate_cycle, in order
    cerrCount,  \* number of lines written to std::cerr
    cerrLast,   \* the last line written to std::cerr
    steps,      \* number of emulate_cycle calls made
    frames,     \* number of render_frame calls made
    stepReturn, \* what the last emulate_cycle call returned (<<>>: void)
    stepBudget, \* the number of emulate_cycle calls the model follows
    busOp       \* BusSpec: the last call made on the Memory object

vars == <<cpu, memory, running, window, renderer, pc, exitCode, argc, romFile,
          opcode, busAccess, cerrCount, cerrLast, steps, frames, stepReturn,
          stepBudget, busOp>>

-----------------------------------------------------------------------------
(* Bounds of the model *)

\* emulate_cycle is called at most this many times in a run: enough to walk
\* from $8000 over $FFFF and on from $0000
MaxSteps == 32775

\* the same, in the runs checked for progress (LiveSpec)
MaxLiveSteps == 20

-----------------------------------------------------------------------------
(* Machine integers *)

Byte == 0..255
Addr == 0..65535

\* conversion to uint8_t
U8(n) == n % 256

\* conversion to uint16_t
U16(n) == n % 65536

\* bit k of v
Bit(v, k) == (v \div (2^k)) % 2

\* v | mask, for a one-bit mask 2^k
OrBit(v, k) == IF Bit(v, k) = 1 THEN v ELSE v + 2^k

\* v & ~mask, for a one-bit mask 2^k
AndNotBit(v, k) == IF Bit(v, k) = 1 THEN v - 2^k ELSE v

-----------------------------------------------------------------------------
(* Memory: std::vector<uint8_t> ram(0x10000, 0).                           *)
(* The vector is represented by the function of its non-zero elements.     *)

\* Memory::Memory
EmptyRam == [a \in {} |-> 0]

\* ram[i], for an index i
RamAt(ram, i) == IF i \in DOMAIN ram THEN ram[i] ELSE 0

\* Index, with the index taken as passed (no conversion to 16 bits)
Index_NotConverted(address) == address

\* Index, with the 2KB mirroring of the console's internal RAM applied
Index_Mirrored2K(address) == U16(address) % 2048

\* the conversion of an argument to the parameter `uint16_t address`
Index(address) == U16(address)

\* Memory::read(uint16_t address)
Read(ram, address) == RamAt(ram, Index(address))

\* Memory::write(uint16_t address, uint8_t value)
Write(ram, address, value) ==
    LET a == Index(address)
        v == U8(value)
    IN  IF RamAt(ram, a) = v THEN ram
        ELSE IF v = 0 THEN [x \in (DOMAIN ram) \ {a} |-> ram[x]]
        ELSE (a :> v) @@ ram

-----------------------------------------------------------------------------
(* CPU6502 *)

\* a line written to std::cerr: its text and the value printed after it
Line(text, arg) == [text |-> text, arg |-> arg]

\* PC++, on a program counter wider than 16 bits
IncPC_NoWrap(p) == p + 1

\* PC++ on the uint16_t program counter
IncPC(p) == U16(p + 1)

\* reset, with the break bit set in the initial status (0x34)
Reset_BreakSet(c) ==
    [A |-> 0, X |-> 0, Y |-> 0, SP |-> 253, PC |-> 32768, status |-> 52]

\* CPU6502::reset
Reset(c) == [A |-> 0, X |-> 0, Y |-> 0, SP |-> 253, PC |-> 32768, status |-> 36]

\* update_zero_and_negative_flags, without the else branch of the zero test
UpdateZeroAndNegativeFlags_ZeroSticky(status, value) ==
    LET s1 == IF value = 0 THEN OrBit(status, 1) ELSE status
    IN  IF Bit(value, 7) = 1 THEN OrBit(s1, 7) ELSE AndNotBit(s1, 7)

\* CPU6502::update_zero_and_negative_flags, on the status byte
UpdateZeroAndNegativeFlags(status, value) ==
    LET s1 == IF value = 0 THEN OrBit(status, 1) ELSE AndNotBit(status, 1)
    IN  IF Bit(value, 7) = 1 THEN OrBit(s1, 7) ELSE AndNotBit(s1, 7)

\* CPU6502::execute_opcode gives, in each case: the CPU after the
\* instruction, the indices of ram it read, the lines it wrote to std::cerr

\* case 0xA9 (LDA immediate): A = memory.read(PC++); flags from A
ExecLDA(c, ram) ==
    LET a == Read(ram, c.PC)
    IN  [cpu |-> [c EXCEPT !.A = a,
                           !.PC = IncPC(c.PC),
                           !.status = UpdateZeroAndNegativeFlags(c.status, a)],
         reads |-> <<Index(c.PC)>>,
         cerr |-> <<>>]

\* TAX, with the transfer reversed (A = X)
ExecTAX_Reversed(c) ==
    [cpu |-> [c EXCEPT !.A = c.X,
                       !.status = UpdateZeroAndNegativeFlags(c.status, c.X)],
     reads |-> <<>>,
     cerr |-> <<>>]

\* case 0xAA (TAX): X = A; flags from X
ExecTAX(c) ==
    [cpu |-> [c EXCEPT !.X = c.A,
                       !.status = UpdateZeroAndNegativeFlags(c.status, c.A)],
     reads |-> <<>>,
     cerr |-> <<>>]

\* INX, incrementing Y instead of X
ExecINX_IncrementsY(c) ==
    LET y == U8(c.Y + 1)
    IN  [cpu |-> [c EXCEPT !.Y = y,
                           !.status = UpdateZeroAndNegativeFlags(c.status, y)],
         reads |-> <<>>,
         cerr |-> <<>>]

\* case 0xE8 (INX): X++; flags from X
ExecINX(c) ==
    LET x == U8(c.X + 1)
    IN  [cpu |-> [c EXCEPT !.X = x,
                           !.status = UpdateZeroAndNegativeFlags(c.status, x)],
         reads |-> <<>>,
         cerr |-> <<>>]

\* default, skipping an operand byte after the unknown opcode
ExecDefault_SkipOperand(c, op) ==
    [cpu |-> [c EXCEPT !.PC = IncPC(c.PC)],
     reads |-> <<>>,
     cerr |-> <<Line("Unknown opcode: ", op)>>]

\* default: std::cerr << "Unknown opcode: " << std::hex << int(opcode)
ExecDefault(c, op) ==
    [cpu |-> c, reads |-> <<>>, cerr |-> <<Line("Unknown opcode: ", op)>>]

\* CPU6502::execute_opcode: the switch
ExecuteOpcode(c, op, ram) ==
    CASE op = 169 -> ExecLDA(c, ram)
      [] op = 170 -> ExecTAX(c)
      [] op = 232 -> ExecINX(c)
      [] OTHER    -> ExecDefault(c, op)

-----------------------------------------------------------------------------
(* The ROM file and NesticleClone::load_rom *)

\* byte i of the file's contents (files are kept sparse as well)
FileByte(f, i) == IF i \in DOMAIN f.bytes THEN f.bytes[i] ELSE 0

\* the largest element of a non-empty set of numbers
Max(S) == CHOOSE m \in S : \A k \in S : k <= m

\* load_rom, once the file is open: buffer(rom_size), read, and the loop
\*   for (i = 0; i < buffer.size(); ++i) memory.write(0x8000 + i, buffer[i])
\* After the loop ram[x] is the byte of the last write made at x, and is
\* unchanged where no write was made.  Only the addresses that hold a
\* non-zero byte before or get one are looked at.
LoadRom(ram, f) ==
    LET WritesTo(x) == {i \in 0..(f.size - 1) : Index(32768 + i) = x}
        Final(x) == IF WritesTo(x) = {} THEN RamAt(ram, x)
                    ELSE U8(FileByte(f, Max(WritesTo(x))))
        Touched == (DOMAIN ram) \cup
                   {Index(32768 + i) : i \in {j \in DOMAIN f.bytes : j < f.size}}
    IN  [x \in {y \in Touched : Final(y) # 0} |-> Final(x)]

-----------------------------------------------------------------------------
(* The environment: the files argv[1] may name, what SDL may do *)

SparseBytes(pairs) ==
    [i \in {p[1] : p \in pairs} |-> (CHOOSE p \in pairs : p[1] = i)[2]]

File(openable, size, pairs) ==
    [openable |-> openable, size |-> size, bytes |-> SparseBytes(pairs)]

\* a name that cannot be opened
NoFile == File(FALSE, 0, {})

\* an empty file
EmptyFile == File(TRUE, 0, {})

\* LDA #v; TAX; INX  for v = $FF, $00, $01, ..., $FE
ProgLoads == File(TRUE, 1024,
    UNION {{<<4 * k, 169>>, <<4 * k + 1, (255 + k) % 256>>, <<4 * k + 2, 170>>,
            <<4 * k + 3, 232>>} : k \in 0..255})

\* $02; NOP ($EA); LDA #$7F; TAX; $FF; INX; LDA #$A9; BRK
ProgUnknown == File(TRUE, 10,
    {<<0, 2>>, <<1, 234>>, <<2, 169>>, <<3, 127>>, <<4, 170>>, <<5, 255>>,
     <<6, 232>>, <<7, 169>>, <<8, 169>>, <<9, 0>>})

\* a 32KB image: INX at $8000, LDA immediate in the last byte ($FFFF)
Prog32K == File(TRUE, 32768, {<<0, 232>>, <<32767, 169>>})

\* a 32KB + 1 image: LDA #$AA at $FFFE, and one byte more
Prog32KPlus ==
    File(TRUE, 32769, {<<32766, 169>>, <<32767, 170>>, <<32768, 232>>})

RomFiles == {NoFile, EmptyFile, ProgLoads, ProgUnknown, Prog32K, Prog32KPlus}

\* values an uninitialized uint8_t / uint16_t member may hold
Garbage8 == {0, 255}
Garbage16 == {0, 65535}

\* where init() stops: "ok", or the SDL call that fails
SdlOutcomes == {"ok", "SDL_Init", "SDL_CreateWindow", "SDL_CreateRenderer"}

-----------------------------------------------------------------------------
(* The program *)

\* the variables of the environment and of BusSpec, which no action of the
\* program changes
env == <<argc, romFile, busOp, stepBudget>>

\* std::cerr << line
Cerr(lines) ==
    /\ cerrCount' = cerrCount + Len(lines)
    /\ cerrLast' = IF lines = <<>> THEN cerrLast ELSE lines[Len(lines)]

\* NesticleClone emulator;  running(true), window(nullptr), renderer(nullptr),
\* cpu default-initialized (indeterminate), memory zeroed
Constructed ==
    /\ cpu \in [A : Garbage8, X : Garbage8, Y : Garbage8, SP : Garbage8,
                PC : Garbage16, status : Garbage8]
    /\ memory = EmptyRam
    /\ running = TRUE
    /\ window = FALSE
    /\ renderer = FALSE
    /\ pc = "main"
    /\ exitCode = -1
    /\ argc \in {1, 2}
    /\ romFile \in RomFiles
    /\ opcode = 0
    /\ busAccess = <<>>
    /\ cerrCount = 0
    /\ cerrLast = Line("", -1)
    /\ steps = 0
    /\ frames = 0
    /\ stepReturn = <<>>
    /\ busOp = [kind |-> "none", address |-> 0, value |-> 0]

Init == Constructed /\ stepBudget = MaxSteps

\* main: argc < 2, usage and return 1
MainUsage ==
    /\ pc = "main"
    /\ argc < 2
    /\ Cerr(<<Line("Usage: ", -1)>>)
    /\ exitCode' = 1
    /\ pc' = "exited"
    /\ UNCHANGED <<cpu, memory, running, window, renderer, opcode, busAccess,
                   steps, frames, stepReturn, env>>

\* main: argc >= 2, the emulator is constructed
MainStart ==
    /\ pc = "main"
    /\ argc >= 2
    /\ pc' = "init"
    /\ UNCHANGED <<cpu, memory, running, window, renderer, exitCode, opcode,
                   busAccess, cerrCount, cerrLast, steps, frames, stepReturn,
                   env>>

\* what init writes to std::cerr when the call named fails
InitMessage(call) ==
    CASE call = "SDL_Init" -> "Failed to initialize SDL: "
      [] call = "SDL_CreateWindow" -> "Failed to create SDL window: "
      [] call = "SDL_CreateRenderer" -> "Failed to create SDL renderer: "

\* init with cpu.reset() moved in front of the SDL calls
EmulatorInit_ResetFirst ==
    /\ pc = "init"
    /\ \E outcome \in SdlOutcomes :
          /\ window' = (outcome \in {"ok", "SDL_CreateRenderer"})
          /\ renderer' = (outcome = "ok")
          /\ cpu' = Reset(cpu)
          /\ IF outcome = "ok"
             THEN /\ pc' = "load_rom"
                  /\ UNCHANGED <<exitCode, cerrCount, cerrLast>>
             ELSE /\ Cerr(<<Line(InitMessage(outcome), -1)>>)
                  /\ exitCode' = 1
                  /\ pc' = "exited"
    /\ UNCHANGED <<memory, running, opcode, busAccess, steps, frames,
                   stepReturn, env>>

\* NesticleClone::init, and main's `return 1` when it returns false
EmulatorInit ==
    /\ pc = "init"
    /\ \E outcome \in SdlOutcomes :
          /\ window' = (outcome \in {"ok", "SDL_CreateRenderer"})
          /\ renderer' = (outcome = "ok")
          /\ IF outcome = "ok"
             THEN /\ cpu' = Reset(cpu)
                  /\ pc' = "load_rom"
                  /\ UNCHANGED <<exitCode, cerrCount, cerrLast>>
             ELSE /\ Cerr(<<Line(InitMessage(outcome), -1)>>)
                  /\ exitCode' = 1
                  /\ pc' = "exited"
                  /\ UNCHANGED cpu
    /\ UNCHANGED <<memory, running, opcode, busAccess, steps, frames,
                   stepReturn, env>>

\* load_rom, ending the program when the file cannot be opened
LoadRomFile_ExitOnFailure ==
    /\ pc = "load_rom"
    /\ IF ~romFile.openable
       THEN /\ Cerr(<<Line("Failed to open ROM file: ", -1)>>)
            /\ exitCode' = 1
            /\ pc' = "exited"
            /\ UNCHANGED memory
       ELSE /\ memory' = LoadRom(memory, romFile)
            /\ pc' = "run"
            /\ UNCHANGED <<exitCode, cerrCount, cerrLast>>
    /\ UNCHANGED <<cpu, running, window, renderer, opcode, busAccess,
                   steps, frames, stepReturn, env>>

\* NesticleClone::load_rom(argv[1])
LoadRomFile ==
    /\ pc = "load_rom"
    /\ IF ~romFile.openable
       THEN /\ Cerr(<<Line("Failed to open ROM file: ", -1)>>)
            /\ UNCHANGED memory
       ELSE /\ memory' = LoadRom(memory, romFile)
            /\ UNCHANGED <<cerrCount, cerrLast>>
    /\ pc' = "run"
    /\ UNCHANGED <<cpu, running, window, renderer, exitCode, opcode, busAccess,
                   steps, frames, stepReturn, env>>

\* handle_input, leaving the loop at once on SDL_QUIT (no step, no frame)
HandleInput_BreakOnQuit ==
    /\ pc = "run"
    /\ running
    /\ steps < stepBudget
    /\ \E quit \in BOOLEAN :
          /\ running' = IF quit THEN FALSE ELSE running
          /\ pc' = IF quit THEN "run" ELSE "emulate"
    /\ UNCHANGED <<cpu, memory, window, renderer, exitCode, opcode, busAccess,
                   cerrCount, cerrLast, steps, frames, stepReturn, env>>

\* NesticleClone::run, `while (running)` true, then handle_input(): the
\* events polled hold an SDL_QUIT or none
HandleInput ==
    /\ pc = "run"
    /\ running
    /\ steps < stepBudget
    /\ \E quit \in BOOLEAN : running' = IF quit THEN FALSE ELSE running
    /\ pc' = "emulate"
    /\ UNCHANGED <<cpu, memory, window, renderer, exitCode, opcode, busAccess,
                   cerrCount, cerrLast, steps, frames, stepReturn, env>>

\* NesticleClone::emulate_cycle (returns void)
EmulateCycle ==
    /\ pc = "emulate"
    /\ LET op == Read(memory, cpu.PC)
           r  == ExecuteOpcode([cpu EXCEPT !.PC = IncPC(cpu.PC)], op, memory)
       IN  /\ opcode' = op
           /\ cpu' = r.cpu
           /\ busAccess' = <<Index(cpu.PC)>> \o r.reads
           /\ Cerr(r.cerr)
    /\ stepReturn' = <<>>
    /\ steps' = steps + 1
    /\ pc' = "render"
    /\ UNCHANGED <<memory, running, window, renderer, exitCode, frames, env>>

\* ppu.render_frame(renderer); SDL_Delay(16)
RenderFrame ==
    /\ pc = "render"
    /\ frames' = frames + 1
    /\ pc' = "run"
    /\ UNCHANGED <<cpu, memory, running, window, renderer, exitCode, opcode,
                   busAccess, cerrCount, cerrLast, steps, stepReturn, env>>

\* `while (running)` false; NesticleClone::cleanup; return 0
Cleanup ==
    /\ pc = "run"
    /\ ~running
    /\ window' = FALSE
    /\ renderer' = FALSE
    /\ exitCode' = 0
    /\ pc' = "exited"
    /\ UNCHANGED <<cpu, memory, running, opcode, busAccess, cerrCount,
                   cerrLast, steps, frames, stepReturn, env>>

Next ==
    \/ MainUsage
    \/ MainStart
    \/ EmulatorInit
    \/ LoadRomFile
    \/ HandleInput
    \/ EmulateCycle
    \/ RenderFrame
    \/ Cleanup

Spec == Init /\ [][Next]_vars

\* the thread of main runs on: no call of the loop blocks (SDL_PollEvent
\* returns at once, SDL_Delay after 16 ms)
LiveInit == Constructed /\ stepBudget = MaxLiveSteps

LiveSpec == LiveInit /\ [][Next]_vars /\ WF_vars(Next)

-----------------------------------------------------------------------------
(* The Memory object on its own: read and write called in any order *)

\* the addresses and values the calls are made with
BusAddrs == {0, 2048, 8191, 32768, 65535}
BusValues == {0, 1, 255}

\* Memory memory;
BusInit ==
    /\ cpu = [A |-> 0, X |-> 0, Y |-> 0, SP |-> 0, PC |-> 0, status |-> 0]
    /\ memory = EmptyRam
    /\ running = TRUE
    /\ window = FALSE
    /\ renderer = FALSE
    /\ pc = "bus"
    /\ exitCode = -1
    /\ argc = 1
    /\ romFile = NoFile
    /\ opcode = 0
    /\ busAccess = <<>>
    /\ cerrCount = 0
    /\ cerrLast = Line("", -1)
    /\ steps = 0
    /\ frames = 0
    /\ stepReturn = <<>>
    /\ stepBudget = 0
    /\ busOp = [kind |-> "none", address |-> 0, value |-> 0]

\* memory.write(address, value), any arguments
BusWrite ==
    /\ pc = "bus"
    /\ \E address \in BusAddrs, value \in BusValues :
          /\ memory' = Write(memory, address, value)
          /\ busOp' = [kind |-> "write", address |-> address, value |-> value]
    /\ UNCHANGED <<cpu, running, window, renderer, pc, exitCode, argc, romFile,
                   opcode, busAccess, cerrCount, cerrLast, steps, frames,
                   stepReturn, stepBudget>>

\* memory.read(address), any argument
BusRead ==
    /\ pc = "bus"
    /\ \E address \in BusAddrs :
          busOp' = [kind |-> "read", address |-> address,
                    value |-> Read(memory, address)]
    /\ UNCHANGED <<cpu, memory, running, window, renderer, pc, exitCode, argc,
                   romFile, opcode, busAccess, cerrCount, cerrLast, steps,
                   frames, stepReturn, stepBudget>>

BusNext == BusWrite \/ BusRead

BusSpec == BusInit /\ [][BusNext]_vars

-----------------------------------------------------------------------------
(* Vocabulary of the properties *)

\* the opcodes execute_opcode has a case for
Implemented == {169, 170, 232}

\* the address of the reset vector of the 6502
ResetVector == 65532

\* the 16-bit little-endian value stored at address a
ReadWord(ram, a) == Read(ram, a) + 256 * Read(ram, a + 1)

\* cpu.reset() has been called
ResetPerformed ==
    \/ pc \in {"load_rom", "run", "emulate", "render"}
    \/ pc = "exited" /\ exitCode = 0

\* load_rom() has been called
LoaderRan ==
    \/ pc \in {"run", "emulate", "render"}
    \/ pc = "exited" /\ exitCode = 0

\* the value the last instruction loaded or computed
Result == IF opcode = 169 THEN cpu.A ELSE cpu.X

-----------------------------------------------------------------------------
(* Properties *)

\* C1: right after reset(), A = X = Y = 0, SP = 0xFD, status = 0x24 and PC is
\* the 16-bit value stored at the reset vector.
C1_ResetLoadsVector ==
    pc = "load_rom" =>
        /\ cpu.A = 0 /\ cpu.X = 0 /\ cpu.Y = 0
        /\ cpu.SP = 253
        /\ cpu.status = 36
        /\ cpu.PC = ReadWord(memory, ResetVector)

\* C2: after a step that executed LDA immediate, TAX or INX with result v, the
\* zero flag is set exactly if v = 0, the negative flag is bit 7 of v, and the
\* two are not both set.
C2_ZeroNegativeFlags ==
    (steps > 0 /\ opcode \in Implemented) =>
        /\ (Bit(cpu.status, 1) = 1) <=> (Result = 0)
        /\ Bit(cpu.status, 7) = Bit(Result, 7)
        /\ ~(Bit(cpu.status, 1) = 1 /\ Bit(cpu.status, 7) = 1)

\* C2 witness: LDA #$A9 has just been executed, negative set and zero clear
C2_Witness ==
    /\ steps > 0
    /\ opcode = 169
    /\ cpu.A = 169
    /\ Bit(cpu.status, 7) = 1
    /\ Bit(cpu.status, 1) = 0

\* C3: in every state from reset() on, whatever steps were taken, status bit 5
\* is set and status bit 4 is clear.
C3_UnusedSetBreakClear ==
    ResetPerformed => (Bit(cpu.status, 5) = 1 /\ Bit(cpu.status, 4) = 0)

\* C3 witness: steps after reset have changed the status byte (negative set)
C3_Witness ==
    /\ steps > 2
    /\ cpu.status # 36
    /\ Bit(cpu.status, 7) = 1
    /\ Bit(cpu.status, 5) = 1

\* C4: a step on an opcode other than 0xA9, 0xAA, 0xE8 leaves A, X, Y, SP,
\* status and the memory unchanged, advances PC by exactly 1, and leaves the
\* emulator running: `running` is untouched and main has not returned.
C4_UnknownOpcodeNoOp ==
    [][(pc = "emulate" /\ Read(memory, cpu.PC) \notin Implemented) =>
          /\ cpu' = [cpu EXCEPT !.PC = (cpu.PC + 1) % 65536]
          /\ memory' = memory
          /\ running' = running
          /\ pc' = "render"
          /\ exitCode' = -1]_vars

\* C4 witness: the second of two unknown opcodes in a row has been stepped
\* over, and the loop goes on
C4_Witness ==
    /\ pc = "render"
    /\ steps = 2
    /\ opcode = 234
    /\ cpu.PC = 32770
    /\ running

\* C5: LDA immediate sets A to the byte after the opcode and changes no other
\* register; TAX sets X to A and keeps A; INX sets X to (X + 1) mod 256 and
\* keeps A (0xFF wraps to 0 with zero set, negative clear); none of them
\* changes carry, overflow or the memory.
C5_OpcodeEffects ==
    [][pc = "emulate" =>
          LET op == Read(memory, cpu.PC)
          IN  /\ op = 169 =>
                    /\ cpu'.A = Read(memory, (cpu.PC + 1) % 65536)
                    /\ cpu'.X = cpu.X /\ cpu'.Y = cpu.Y /\ cpu'.SP = cpu.SP
              /\ op = 170 => (cpu'.X = cpu.A /\ cpu'.A = cpu.A)
              /\ op = 232 =>
                    /\ cpu'.X = (cpu.X + 1) % 256
                    /\ cpu'.A = cpu.A
                    /\ cpu.X = 255 =>
                          /\ cpu'.X = 0
                          /\ Bit(cpu'.status, 1) = 1
                          /\ Bit(cpu'.status, 7) = 0
              /\ op \in Implemented =>
                    /\ Bit(cpu'.status, 0) = Bit(cpu.status, 0)
                    /\ Bit(cpu'.status, 6) = Bit(cpu.status, 6)
                    /\ memory' = memory]_vars

\* C5 witness: INX has taken X from 0xFF to 0x00 while A holds 0xFF
C5_Witness ==
    /\ pc = "render"
    /\ opcode = 232
    /\ cpu.X = 0
    /\ cpu.A = 255
    /\ Bit(cpu.status, 1) = 1

\* C6: every element of ram that is read or written lies inside the 65536
\* bytes of the vector: no write has made an element outside 0..0xFFFF, every
\* read of a step is made at an index in range and returns a byte, also when
\* PC has wrapped from 0xFFFF to 0x0000.
C6_BusAccessInRange ==
    /\ DOMAIN memory \subseteq Addr
    /\ \A k \in 1..Len(busAccess) : busAccess[k] \in Addr
    /\ \A a \in BusAddrs : Read(memory, a) \in Byte
    /\ opcode \in Byte
    /\ ResetPerformed => (cpu.PC \in Addr /\ cpu.A \in Byte)

\* C6 witness: an LDA immediate at 0xFFFF fetched its operand at 0x0000
C6_Witness ==
    /\ opcode = 169
    /\ busAccess = <<65535, 0>>
    /\ cpu.PC = 1

\* C7: after write(a, v), read(a) returns v and every other address reads as
\* it did before the write (the memory has no mirrors).
C7_WriteNoAlias ==
    [][busOp'.kind = "write" =>
          /\ Read(memory', busOp'.address) = busOp'.value
          /\ \A b \in ((DOMAIN memory) \cup (DOMAIN memory') \cup BusAddrs)
                          \ {busOp'.address} :
                 RamAt(memory', b) = RamAt(memory, b)]_vars

\* C7 witness: 0xFF was written at 0x0800 while 0x0000 holds 0x01, and both
\* read back
C7_Witness ==
    /\ busOp = [kind |-> "write", address |-> 2048, value |-> 255]
    /\ Read(memory, 2048) = 255
    /\ Read(memory, 0) = 1

\* C8: when the ROM file cannot be opened, load_rom writes one diagnostic
\* line, changes no memory byte and no CPU register, and main goes on into the
\* run loop; after that the program ends only through a quit event.
C8_MissingRomContinues ==
    [][/\ (pc = "load_rom" /\ ~romFile.openable) =>
             /\ memory' = memory
             /\ cpu' = cpu
             /\ cerrCount' = cerrCount + 1
             /\ cerrLast'.text = "Failed to open ROM file: "
             /\ pc' = "run"
             /\ running'
             /\ exitCode' = -1
       /\ (~romFile.openable /\ LoaderRan /\ pc # "exited" /\ pc' = "exited") =>
             (~running /\ exitCode' = 0)]_vars

\* C8 witness: steps are being executed after a failed load, on the zeroed
\* memory
C8_Witness ==
    /\ ~romFile.openable
    /\ cerrLast.text = "Unknown opcode: "
    /\ cerrCount = 4
    /\ steps = 3
    /\ memory = EmptyRam
    /\ running

\* C9: the loader has run before reset() is performed, and both before the
\* first step.
C9_LoadBeforeReset ==
    /\ ResetPerformed => LoaderRan
    /\ steps > 0 => (ResetPerformed /\ LoaderRan)

\* C10: every step executes one instruction and returns the number of cycles
\* it took to its caller, which is 2 for an unmapped opcode.
C10_StepReportsCycles ==
    steps > 0 =>
        /\ Len(stepReturn) = 1
        /\ opcode \notin Implemented => stepReturn[1] = 2

\* C11: internal RAM is mirrored every 2KB over 0x0000..0x1FFF: after
\* write(a, v), read(b) returns v for every b of the window with
\* (b AND 0x07FF) = (a AND 0x07FF).
C11_RamMirrored ==
    (busOp.kind = "write" /\ busOp.address \in 0..8191) =>
        \A b \in BusAddrs \cap (0..8191) :
            (b % 2048 = busOp.address % 2048) =>
                Read(memory, b) = busOp.value

\* C13: a step fetches one opcode, at PC, and leaves PC advanced modulo 2^16
\* by the length of the instruction: 2 for LDA immediate, whose operand is
\* read at the address after the opcode, 1 for every other opcode.
C13_PcAdvance ==
    [][pc = "emulate" =>
          LET op == Read(memory, cpu.PC)
          IN  /\ opcode' = op
              /\ busAccess'[1] = cpu.PC
              /\ op = 169 =>
                    /\ busAccess' = <<cpu.PC, (cpu.PC + 1) % 65536>>
                    /\ cpu'.PC = (cpu.PC + 2) % 65536
              /\ op # 169 =>
                    /\ busAccess' = <<cpu.PC>>
                    /\ cpu'.PC = (cpu.PC + 1) % 65536
              /\ steps' = steps + 1]_vars

\* C13 witness: LDA #$AA at 0xFFFE took its operand at 0xFFFF and PC is 0x0000
C13_Witness ==
    /\ pc = "render"
    /\ opcode = 169
    /\ busAccess = <<65534, 65535>>
    /\ cpu.A = 170
    /\ cpu.PC = 0

\* C14: after load_rom of a file of size n, byte i of the file is stored at
\* address 0x8000 + i for every i < n, and every address below 0x8000 holds
\* what it held before the load (zero: the memory is fresh when main loads).
C14_RomLoadedAt8000 ==
    (pc = "run" /\ steps = 0 /\ romFile.openable) =>
        /\ \A i \in DOMAIN romFile.bytes :
               i < romFile.size => RamAt(memory, 32768 + i) = romFile.bytes[i]
        /\ \A a \in DOMAIN memory : a >= 32768

\* status AND 0x7D: the status byte without the zero and negative flags
StatusOtherBits(status) == status - 128 * Bit(status, 7) - 2 * Bit(status, 1)

\* C15: no step of the program after load_rom writes the memory, and a step
\* of the CPU keeps SP, Y and the status bits other than zero and negative;
\* from reset() on, SP = 0xFD, Y = 0 and (status AND 0x7D) = 0x24.
C15_StepFrame ==
    [][/\ pc # "load_rom" => memory' = memory
       /\ pc = "emulate" =>
             /\ cpu'.SP = cpu.SP
             /\ cpu'.Y = cpu.Y
             /\ StatusOtherBits(cpu'.status) = StatusOtherBits(cpu.status)
       /\ ResetPerformed' =>
             /\ cpu'.SP = 253
             /\ cpu'.Y = 0
             /\ StatusOtherBits(cpu'.status) = 36]_vars

\* C15 witness: steps have changed A, X, PC and the flags, on a loaded memory
C15_Witness ==
    /\ pc = "render"
    /\ steps = 6
    /\ memory # EmptyRam
    /\ cpu.A = 127
    /\ cpu.X = 128
    /\ cpu.status = 164
    /\ cpu.SP = 253

\* the steps the run loop allows: running is cleared only by handle_input and
\* never set again, an iteration is handle_input, one emulate_cycle, one
\* render_frame, and the loop is left only with running false, to the end of
\* main, after which nothing is executed
C16_RunLoopSafety ==
    [][/\ ~running => ~running'
       /\ (running /\ ~running') =>
             (pc = "run" /\ pc' = "emulate" /\ steps' = steps /\ frames' = frames)
       /\ pc = "emulate" =>
             (pc' = "render" /\ steps' = steps + 1 /\ frames' = frames)
       /\ pc = "render" =>
             (pc' = "run" /\ steps' = steps /\ frames' = frames + 1)
       /\ (pc = "run" /\ running) => pc' = "emulate"
       /\ (pc = "run" /\ ~running) =>
             (pc' = "exited" /\ exitCode' = 0 /\ steps' = steps /\ frames' = frames)
       /\ pc = "exited" => UNCHANGED vars]_vars

\* the loop is on and the step bound of the model is not reached
LoopOn == pc = "run" /\ running /\ steps < stepBudget

\* C16: running goes to false only in handle_input and stays false; the
\* iteration that saw the quit event still makes its one step and its one
\* frame, then the loop ends and no step is executed any more; the loop ends
\* in no other way, and while no quit event is seen every iteration makes its
\* step and its frame, again and again.
C16_RunLoop ==
    /\ C16_RunLoopSafety
    /\ [](LoopOn => <>(pc = "render"))
    /\ []((pc = "run" /\ ~running) => <>(pc = "exited"))

\* C16 witness: the quit event came in the third iteration, which made its
\* step and its frame before main returned 0
C16_Witness ==
    /\ pc = "exited"
    /\ exitCode = 0
    /\ ~running
    /\ steps = 3
    /\ frames = 3

\* C17: when init fails (SDL_Init, the window or the renderer), the CPU is
\* left as it was, not reset, and main returns 1 at once: no ROM is loaded,
\* no step and no frame is made, cleanup is not called (a window already
\* created stays), and nothing runs afterwards.  When init succeeds, the CPU
\* holds its reset values before load_rom and before the first step.
C17_InitFailure ==
    [][/\ (pc = "init" /\ pc' = "exited") =>
             /\ cpu' = cpu
             /\ exitCode' = 1
             /\ cerrCount' = cerrCount + 1
             /\ cerrLast'.text \in {InitMessage(c) : c \in SdlOutcomes \ {"ok"}}
             /\ window' = (cerrLast'.text = InitMessage("SDL_CreateRenderer"))
             /\ ~renderer'
             /\ memory' = EmptyRam
             /\ steps' = 0
             /\ frames' = 0
       /\ (pc = "init" /\ pc' # "exited") =>
             /\ pc' = "load_rom"
             /\ window'
             /\ renderer'
             /\ cpu' = [cpu EXCEPT !.PC = 32768, !.SP = 253, !.status = 36,
                                    !.A = 0, !.X = 0, !.Y = 0]
             /\ steps' = 0
             /\ exitCode' = exitCode
       /\ pc = "exited" => UNCHANGED vars
       /\ steps' > 0 => cpu'.SP = 253]_vars

\* C17 witness: SDL_CreateRenderer failed; main has returned 1 with the
\* window still there, the CPU not reset, nothing loaded and no step made
C17_Witness ==
    /\ pc = "exited"
    /\ exitCode = 1
    /\ argc >= 2
    /\ window
    /\ ~renderer
    /\ cerrLast.text = "Failed to create SDL renderer: "
    /\ cpu.SP = 255
    /\ cpu.PC = 65535
    /\ romFile = ProgUnknown
    /\ memory = EmptyRam
    /\ steps = 0
    /\ frames = 0

====
